---- MODULE Spec2Model ----
(***************************************************************************)
(* Model of the css-colors library (src/src/lib.rs): the four colour       *)
(* models RGB, RGBA, HSL, HSLA, their conversions and transformations.     *)
(*                                                                         *)
(* The library computes in IEEE-754 binary32 (Rust f32).  The model keeps  *)
(* that arithmetic: an f32 value is a pair <<m, e>> standing for m * 2^e,  *)
(* with m = 0 or 2^23 <= |m| < 2^24, and every operation rounds to nearest *)
(* (ties to even) exactly as the hardware does.  All intermediates stay    *)
(* below 2^31.  The values the library computes are far from the subnormal *)
(* and overflow ranges, so the exponent is left unbounded.                 *)
(***************************************************************************)
EXTENDS Integers, Sequences, FiniteSets, TLC

\* orig:   the colour the caller constructed
\* arg:    the amount, weight or spin angle the caller passes to every call
\* peer:   the second colour the caller passes to mix
\* prev:   the value the last call was made on
\* cur:    the value the calls made so far have returned
\* trace:  the names of the methods called so far, in order
\* status: "ok", or "panic" once a call has ended in a panic
VARIABLES orig, arg, peer, prev, cur, trace, status

vars == <<orig, arg, peer, prev, cur, trace, status>>

(***************************************************************************)
(* binary32 arithmetic                                                     *)
(***************************************************************************)
Pow2 == [k \in 0..30 |-> 2^k]

Abs(x) == IF x < 0 THEN -x ELSE x

Sgn(x) == IF x < 0 THEN -1 ELSE IF x > 0 THEN 1 ELSE 0

Min(a, b) == IF a < b THEN a ELSE b

Max(a, b) == IF a > b THEN a ELSE b

FZero == <<0, 0>>

\* Exact scaling of a significand 0 < |m| < 2^24 up into [2^23, 2^24).
RECURSIVE NormUp(_, _)
NormUp(m, e) == IF Abs(m) >= 8388608 THEN <<m, e>> ELSE NormUp(2 * m, e - 1)

\* The number of low bits a magnitude 2^24 <= r < 2^31 has beyond 24.
ShiftOf(r) ==
    IF r < 33554432 THEN 1
    ELSE IF r < 67108864 THEN 2
    ELSE IF r < 134217728 THEN 3
    ELSE IF r < 268435456 THEN 4
    ELSE IF r < 536870912 THEN 5
    ELSE IF r < 1073741824 THEN 6
    ELSE 7

\* Round to nearest, ties to even: 1 when the kept bits q go up.
RoundUp(rem, half, q) ==
    IF rem > half \/ (rem = half /\ q % 2 = 1) THEN 1 ELSE 0

\* A rounded significand that reached 2^24 moves up one exponent.
Carry(sgn, m, e) ==
    IF m = 16777216 THEN <<sgn * 8388608, e + 1>> ELSE <<sgn * m, e>>

RoundShift(sgn, r, e, k) ==
    Carry(sgn,
          r \div Pow2[k] + RoundUp(r % Pow2[k], Pow2[k - 1], r \div Pow2[k]),
          e + k)

\* Nearest binary32 to sgn * r * 2^e, for 0 < r < 2^31.  A set low bit of r
\* may stand for discarded non-zero bits (a sticky bit).
RoundPack(sgn, r, e) ==
    IF r < 16777216 THEN NormUp(sgn * r, e)
    ELSE RoundShift(sgn, r, e, ShiftOf(r))

\* q with the low bit set when the discarded bits rest are not all zero.
Jam(q, rest) == IF rest = 0 THEN q ELSE q + (1 - (q % 2))

ShiftRightJam(x, n) ==
    IF n >= 25 THEN (IF x = 0 THEN 0 ELSE 1)
    ELSE Jam(x \div Pow2[n], x % Pow2[n])

\* i as f32, exact for |i| < 2^24.
FromInt(i) == IF i = 0 THEN FZero ELSE NormUp(i, 0)

FNeg(a) == <<-a[1], a[2]>>

\* The significand of the operand of lower exponent, brought to the scale
\* of the other operand with five guard bits; d is the exponent difference.
AlignLow(m, d) ==
    IF d <= 5 THEN m * Pow2[5 - d]
    ELSE Sgn(m) * ShiftRightJam(Abs(m), d - 5)

AddSum(s, e) == IF s = 0 THEN FZero ELSE RoundPack(Sgn(s), Abs(s), e)

AddAligned(hi, lo) ==
    AddSum(hi[1] * 32 + AlignLow(lo[1], hi[2] - lo[2]), hi[2] - 5)

FAdd(a, b) ==
    IF a[1] = 0 THEN b
    ELSE IF b[1] = 0 THEN a
    ELSE IF a[2] >= b[2] THEN AddAligned(a, b)
    ELSE AddAligned(b, a)

FSub(a, b) == FAdd(a, FNeg(b))

\* The 48-bit product of two significands, from 12-bit halves, cut to its
\* top 30 bits with the rest as a sticky bit.
MulHigh(h, low) ==
    Jam((h + low \div 16777216) * 64 + (low % 16777216) \div 262144,
        (low % 16777216) % 262144)

MulLow(hh, cross, ll) ==
    MulHigh(hh + cross \div 4096, ll + (cross % 4096) * 4096)

MulCross(a1, a0, b1, b0) == MulLow(a1 * b1, a1 * b0 + a0 * b1, a0 * b0)

MulMag(ma, mb) == MulCross(ma \div 4096, ma % 4096, mb \div 4096, mb % 4096)

FMul(a, b) ==
    IF a[1] = 0 \/ b[1] = 0 THEN FZero
    ELSE RoundPack(Sgn(a[1]) * Sgn(b[1]), MulMag(Abs(a[1]), Abs(b[1])),
                   a[2] + b[2] + 18)

\* Long division, seven quotient bits a step; qr is <<quotient, remainder>>.
DivStep(qr, mb) == <<qr[1] * 128 + (qr[2] * 128) \div mb, (qr[2] * 128) % mb>>

DivJam(qr) == Jam(qr[1], qr[2])

DivMag(ma, mb) ==
    DivJam(DivStep(DivStep(DivStep(DivStep(<<ma \div mb, ma % mb>>, mb), mb), mb), mb))

\* a / b for b # 0.
FDiv(a, b) ==
    IF a[1] = 0 THEN FZero
    ELSE RoundPack(Sgn(a[1]) * Sgn(b[1]), DivMag(Abs(a[1]), Abs(b[1])),
                   a[2] - b[2] - 28)

FLt(a, b) ==
    IF Sgn(a[1]) # Sgn(b[1]) THEN Sgn(a[1]) < Sgn(b[1])
    ELSE IF a[1] = 0 THEN FALSE
    ELSE IF a[1] > 0 THEN a[2] < b[2] \/ (a[2] = b[2] /\ a[1] < b[1])
    ELSE a[2] > b[2] \/ (a[2] = b[2] /\ a[1] < b[1])

FGt(a, b) == FLt(b, a)

FLe(a, b) == ~FLt(b, a)

\* f32::round (half away from zero) followed by a saturating cast to an
\* unsigned integer type whose largest value is top.
RoundSat(a, top) ==
    IF a[1] <= 0 THEN 0
    ELSE IF a[2] >= 0 THEN top
    ELSE IF a[2] <= -25 THEN 0
    ELSE Min((a[1] + Pow2[-a[2] - 1]) \div Pow2[-a[2]], top)

F1 == FromInt(1)

F2 == FromInt(2)

F4 == FromInt(4)

F6 == FromInt(6)

F60 == FromInt(60)

F255 == FromInt(255)

F360 == FromInt(360)

FHalf == FDiv(F1, F2)

(***************************************************************************)
(* ratio::Ratio, an 8-bit numerator over 255, and angle::Angle, a number   *)
(* of degrees in [0, 360).  A Ratio is modelled by its numerator and an    *)
(* Angle by its degrees.                                                   *)
(***************************************************************************)
U8Max == 255

U16Max == 65535

FullTurn == 360

Ratio_from_u8(n) == n

Ratio_from_percentage(p) == Min(U8Max, (2 * p * U8Max + 100) \div 200)

Ratio_from_f32(x) == RoundSat(FMul(x, F255), U8Max)

Ratio_as_u8(n) == n

Ratio_as_percentage(n) == (2 * n * 100 + U8Max) \div (2 * U8Max)

Ratio_as_f32(n) == FDiv(FromInt(n), F255)

Ratio_add(a, b) == Min(U8Max, a + b)

Ratio_sub(a, b) == Max(0, a - b)

Ratio_mul(a, b) == Ratio_from_f32(FMul(Ratio_as_f32(a), Ratio_as_f32(b)))

Angle_new(d) == d % FullTurn

Angle_degrees(h) == h

Angle_add(a, b) == (a + b) % FullTurn

Angle_sub(a, b) == (a + FullTurn - b) % FullTurn

(***************************************************************************)
(* The four colour structs and their constructors.                        *)
(***************************************************************************)
MkRGB(r, g, b) == [model |-> "RGB", r |-> r, g |-> g, b |-> b]

MkRGBA(r, g, b, a) == [model |-> "RGBA", r |-> r, g |-> g, b |-> b, a |-> a]

MkHSL(h, s, l) == [model |-> "HSL", h |-> h, s |-> s, l |-> l]

MkHSLA(h, s, l, a) == [model |-> "HSLA", h |-> h, s |-> s, l |-> l, a |-> a]

RGB_new(r, g, b) == MkRGB(Ratio_from_u8(r), Ratio_from_u8(g), Ratio_from_u8(b))

RGBA_new(r, g, b, a) ==
    MkRGBA(Ratio_from_u8(r), Ratio_from_u8(g), Ratio_from_u8(b), Ratio_from_u8(a))

HSL_new(h, s, l) ==
    MkHSL(Angle_new(h), Ratio_from_percentage(s), Ratio_from_percentage(l))

HSLA_new(h, s, l, a) ==
    MkHSLA(Angle_new(h), Ratio_from_percentage(s), Ratio_from_percentage(l),
           Ratio_from_u8(a))

(***************************************************************************)
(* impl Color for RGB: conversions                                         *)
(***************************************************************************)
RGB_to_rgb(c) == c

RGB_to_rgba(c) ==
    RGBA_new(Ratio_as_u8(c.r), Ratio_as_u8(c.g), Ratio_as_u8(c.b), 255)

\* RGB_max with the red channel compared with green only.
Mutant_RGB_max(r, g, b) == IF FGt(r, g) THEN r ELSE IF FGt(g, b) THEN g ELSE b

\* The maximum of the three channels as to_hsl selects it.
RGB_max(r, g, b) == IF FGt(r, g) /\ FGt(r, b) THEN r ELSE IF FGt(g, b) THEN g ELSE b

\* The minimum of the three channels as to_hsl selects it.
RGB_min(r, g, b) == IF FLt(r, g) /\ FLt(r, b) THEN r ELSE IF FLt(g, b) THEN g ELSE b

RGB_luminosity(max, min) == FDiv(FAdd(max, min), F2)

\* RGB_saturation with the formula of the dark half used for every luminosity.
Mutant_RGB_saturation(max, min, luminosity) ==
    IF max = min THEN FZero
    ELSE FDiv(FSub(max, min), FAdd(max, min))

RGB_saturation(max, min, luminosity) ==
    IF max = min THEN FZero
    ELSE IF FLt(luminosity, FHalf) THEN FDiv(FSub(max, min), FAdd(max, min))
    ELSE FDiv(FSub(max, min), FSub(F2, FAdd(max, min)))

\* The hue before it is turned into degrees: which channel holds the maximum.
RGB_hue_sector(r, g, b, max, min) ==
    IF max = r THEN FDiv(FSub(g, b), FSub(max, min))
    ELSE IF max = g THEN FAdd(F2, FDiv(FSub(b, r), FSub(max, min)))
    ELSE FAdd(F4, FDiv(FSub(r, g), FSub(max, min)))

\* RGB_hue_positive without the full turn added to a hue that is not positive.
Mutant_RGB_hue_positive(hue) == hue

\* hue is the sector times 60; a hue that is not positive gets a full turn.
RGB_hue_positive(hue) == IF FLe(hue, FZero) THEN FAdd(hue, F360) ELSE hue

\* RGB_to_hsl_extremes storing the rounded hue without Angle::new.
Mutant_RGB_to_hsl_extremes(r, g, b, max, min) ==
    MkHSL(RoundSat(RGB_hue_positive(FMul(RGB_hue_sector(r, g, b, max, min), F60)),
                   U16Max),
          Ratio_from_f32(RGB_saturation(max, min, RGB_luminosity(max, min))),
          Ratio_from_f32(RGB_luminosity(max, min)))

RGB_to_hsl_extremes(r, g, b, max, min) ==
    MkHSL(Angle_new(RoundSat(RGB_hue_positive(FMul(RGB_hue_sector(r, g, b, max, min), F60)),
                             U16Max)),
          Ratio_from_f32(RGB_saturation(max, min, RGB_luminosity(max, min))),
          Ratio_from_f32(RGB_luminosity(max, min)))

RGB_to_hsl_floats(r, g, b) ==
    RGB_to_hsl_extremes(r, g, b, RGB_max(r, g, b), RGB_min(r, g, b))

\* RGB_to_hsl with the lightness of a grey passed through a percentage.
Mutant_RGB_to_hsl(c) ==
    IF c.r = c.g /\ c.g = c.b
    THEN HSL_new(0, 0, Ratio_as_percentage(c.r))
    ELSE RGB_to_hsl_floats(Ratio_as_f32(c.r), Ratio_as_f32(c.g), Ratio_as_f32(c.b))

RGB_to_hsl(c) ==
    IF c.r = c.g /\ c.g = c.b
    THEN MkHSL(Angle_new(0), Ratio_from_percentage(0), c.r)
    ELSE RGB_to_hsl_floats(Ratio_as_f32(c.r), Ratio_as_f32(c.g), Ratio_as_f32(c.b))

\* HSLA_of_percentages giving HSLA::new the numerators as they are.
Mutant_HSLA_of_percentages(x, a) ==
    HSLA_new(Angle_degrees(x.h), Ratio_as_u8(x.s), Ratio_as_u8(x.l), a)

\* HSLA::new on the degrees and the percentages of an HSL value, with alpha a.
HSLA_of_percentages(x, a) ==
    HSLA_new(Angle_degrees(x.h), Ratio_as_percentage(x.s),
             Ratio_as_percentage(x.l), a)

RGB_to_hsla(c) == HSLA_of_percentages(RGB_to_hsl(c), 255)

(***************************************************************************)
(* impl Color for HSL: conversions                                         *)
(***************************************************************************)
FTwoThirds == FDiv(F2, FromInt(3))

FOneSixth == FDiv(F1, F6)

to_rgb_region(value, temp_1, temp_2) ==
    IF FGt(value, FTwoThirds) THEN temp_2
    ELSE IF FGt(value, FHalf)
    THEN FAdd(temp_2,
              FMul(FMul(FSub(temp_1, temp_2), FSub(FTwoThirds, value)), F6))
    ELSE IF FGt(value, FOneSixth) THEN temp_1
    ELSE FAdd(temp_2, FMul(FMul(FSub(temp_1, temp_2), value), F6))

to_rgb_value(val, temp_1, temp_2) ==
    to_rgb_region(FDiv(FromInt(val), F360), temp_1, temp_2)

HSL_temp_1(s, l) ==
    IF FLt(l, FHalf) THEN FMul(l, FAdd(F1, s))
    ELSE FSub(FAdd(l, s), FMul(l, s))

HSL_temp_2(l, temp_1) == FSub(FMul(F2, l), temp_1)

\* The three channels from the hue rotated by +120, 0 and -120 degrees.
HSL_to_rgb_channels(hue, temp_1, temp_2) ==
    MkRGB(Ratio_from_f32(to_rgb_value(Angle_degrees(Angle_add(hue, Angle_new(120))),
                                      temp_1, temp_2)),
          Ratio_from_f32(to_rgb_value(Angle_degrees(hue), temp_1, temp_2)),
          Ratio_from_f32(to_rgb_value(Angle_degrees(Angle_sub(hue, Angle_new(120))),
                                      temp_1, temp_2)))

HSL_to_rgb_temps(hue, l, temp_1) ==
    HSL_to_rgb_channels(hue, temp_1, HSL_temp_2(l, temp_1))

HSL_to_rgb_floats(hue, s, l) == HSL_to_rgb_temps(hue, l, HSL_temp_1(s, l))

\* HSL_to_rgb with the lightness of a grey passed through a percentage.
Mutant_HSL_to_rgb(c) ==
    IF Ratio_as_f32(c.s) = FZero
    THEN RGB_new(Ratio_from_percentage(Ratio_as_percentage(c.l)),
                 Ratio_from_percentage(Ratio_as_percentage(c.l)),
                 Ratio_from_percentage(Ratio_as_percentage(c.l)))
    ELSE HSL_to_rgb_floats(c.h, Ratio_as_f32(c.s), Ratio_as_f32(c.l))

HSL_to_rgb(c) ==
    IF Ratio_as_f32(c.s) = FZero THEN MkRGB(c.l, c.l, c.l)
    ELSE HSL_to_rgb_floats(c.h, Ratio_as_f32(c.s), Ratio_as_f32(c.l))

\* RGBA::new on the bytes of an RGB value, with alpha a.
RGBA_of_bytes(x, a) ==
    RGBA_new(Ratio_as_u8(x.r), Ratio_as_u8(x.g), Ratio_as_u8(x.b), a)

HSL_to_rgba(c) == RGBA_of_bytes(HSL_to_rgb(c), 255)

HSL_to_hsl(c) == c

\* HSL_to_hsla with the opaque alpha written as the percentage 100.
Mutant_HSL_to_hsla(c) == HSLA_of_percentages(c, 100)

HSL_to_hsla(c) == HSLA_of_percentages(c, 255)

(***************************************************************************)
(* impl Color for RGBA: conversions                                        *)
(***************************************************************************)
\* RGBA_to_rgb with the channels multiplied by the alpha.
Mutant_RGBA_to_rgb(c) ==
    RGB_new(Ratio_mul(c.r, c.a), Ratio_mul(c.g, c.a), Ratio_mul(c.b, c.a))

RGBA_to_rgb(c) == RGB_new(Ratio_as_u8(c.r), Ratio_as_u8(c.g), Ratio_as_u8(c.b))

RGBA_to_rgba(c) == c

RGBA_to_hsl(c) == RGB_to_hsl(RGBA_to_rgb(c))

RGBA_to_hsla(c) == HSLA_of_percentages(RGBA_to_hsl(c), Ratio_as_u8(c.a))

(***************************************************************************)
(* impl Color for HSLA: conversions                                        *)
(***************************************************************************)
HSLA_to_hsl(c) == MkHSL(c.h, c.s, c.l)

HSLA_to_rgb(c) == HSL_to_rgb(HSLA_to_hsl(c))

\* The RGBA struct built from the fields of an RGB value and an alpha.
RGBA_with_alpha(x, a) == MkRGBA(x.r, x.g, x.b, a)

HSLA_to_rgba(c) == RGBA_with_alpha(HSLA_to_rgb(c), c.a)

HSLA_to_hsla(c) == c

(***************************************************************************)
(* HSL and HSLA transformations                                            *)
(***************************************************************************)
I16Min == -32768

\* An assertion failure or an overflow check that ends the call.
Panic == [model |-> "panic"]

\* HSL_saturate adding the amount as a raw byte, as fadein does.
Mutant_HSL_saturate(c, amount) ==
    MkHSL(c.h, Ratio_add(c.s, Ratio_from_u8(amount)), c.l)

HSL_saturate(c, amount) ==
    MkHSL(c.h, Ratio_add(c.s, Ratio_from_percentage(amount)), c.l)

\* HSL_desaturate subtracting the amount as a raw byte, as fadeout does.
Mutant_HSL_desaturate(c, amount) ==
    MkHSL(c.h, Ratio_sub(c.s, Ratio_from_u8(amount)), c.l)

HSL_desaturate(c, amount) ==
    MkHSL(c.h, Ratio_sub(c.s, Ratio_from_percentage(amount)), c.l)

\* HSL_lighten adding the numerators without the clamp at 255.
Mutant_HSL_lighten(c, amount) ==
    MkHSL(c.h, c.s, c.l + Ratio_from_percentage(amount))

HSL_lighten(c, amount) ==
    MkHSL(c.h, c.s, Ratio_add(c.l, Ratio_from_percentage(amount)))

HSL_darken(c, amount) ==
    MkHSL(c.h, c.s, Ratio_sub(c.l, Ratio_from_percentage(amount)))

\* HSL_fadein raising the lightness, as lighten does.
Mutant_HSL_fadein(c, amount) ==
    MkHSL(c.h, c.s, Ratio_add(c.l, Ratio_from_u8(amount)))

HSL_fadein(c, amount) == c

HSL_fadeout(c, amount) == c

HSL_fade(c, amount) == MkHSLA(c.h, c.s, c.l, Ratio_from_u8(amount))

\* HSL_spin turning clockwise for a negative amount too.
Mutant_HSL_spin(c, amount) ==
    IF ~(amount < 360) THEN {Panic}
    ELSE IF amount < 0
    THEN IF amount = I16Min
         THEN {Panic,
               HSL_to_rgb(MkHSL(Angle_add(c.h, Angle_new(-I16Min)), c.s, c.l))}
         ELSE {HSL_to_rgb(MkHSL(Angle_add(c.h, Angle_new(amount * (-1))), c.s, c.l))}
    ELSE {HSL_to_rgb(MkHSL(Angle_add(c.h, Angle_new(amount)), c.s, c.l))}

\* The outcomes of spin.  amount * -1 overflows an i16 for amount = I16Min:
\* a build with overflow checks panics there, a build without them wraps
\* back to I16Min, which the cast to u16 reads as 32768.
HSL_spin(c, amount) ==
    IF ~(amount < 360) THEN {Panic}
    ELSE IF amount < 0
    THEN IF amount = I16Min
         THEN {Panic,
               HSL_to_rgb(MkHSL(Angle_sub(c.h, Angle_new(-I16Min)), c.s, c.l))}
         ELSE {HSL_to_rgb(MkHSL(Angle_sub(c.h, Angle_new(amount * (-1))), c.s, c.l))}
    ELSE {HSL_to_rgb(MkHSL(Angle_add(c.h, Angle_new(amount)), c.s, c.l))}

HSL_greyscale(c) == MkHSL(c.h, Ratio_from_percentage(0), c.l)

HSLA_saturate(c, amount) ==
    MkHSLA(c.h, Ratio_add(c.s, Ratio_from_percentage(amount)), c.l, c.a)

HSLA_desaturate(c, amount) ==
    MkHSLA(c.h, Ratio_sub(c.s, Ratio_from_percentage(amount)), c.l, c.a)

HSLA_lighten(c, amount) ==
    MkHSLA(c.h, c.s, Ratio_add(c.l, Ratio_from_percentage(amount)), c.a)

HSLA_darken(c, amount) ==
    MkHSLA(c.h, c.s, Ratio_sub(c.l, Ratio_from_percentage(amount)), c.a)

HSLA_fadein(c, amount) ==
    MkHSLA(c.h, c.s, c.l, Ratio_add(c.a, Ratio_from_u8(amount)))

HSLA_fadeout(c, amount) ==
    MkHSLA(c.h, c.s, c.l, Ratio_sub(c.a, Ratio_from_u8(amount)))

HSLA_fade(c, amount) == MkHSLA(c.h, c.s, c.l, Ratio_from_u8(amount))

HSLA_spin(c, amount) ==
    {IF x = Panic THEN Panic ELSE RGB_to_rgb(x) : x \in HSL_spin(HSLA_to_hsl(c), amount)}

HSLA_greyscale(c) == HSL_to_hsla(HSL_greyscale(HSLA_to_hsl(c)))

(***************************************************************************)
(* RGB and RGBA transformations                                            *)
(***************************************************************************)
RGB_saturate(c, amount) == HSL_to_rgb(HSL_saturate(RGB_to_hsl(c), amount))

\* RGB_desaturate returning the receiver itself for a zero amount.
Mutant_RGB_desaturate(c, amount) ==
    IF amount = 0 THEN c ELSE HSL_to_rgb(HSL_desaturate(RGB_to_hsl(c), amount))

RGB_desaturate(c, amount) == HSL_to_rgb(HSL_desaturate(RGB_to_hsl(c), amount))

RGB_lighten(c, amount) == HSL_to_rgb(HSL_lighten(RGB_to_hsl(c), amount))

RGB_darken(c, amount) == HSL_to_rgb(HSL_darken(RGB_to_hsl(c), amount))

RGB_fadein(c, amount) == c

RGB_fadeout(c, amount) == c

RGB_fade(c, amount) ==
    RGBA_new(Ratio_as_u8(c.r), Ratio_as_u8(c.g), Ratio_as_u8(c.b), amount)

RGB_spin(c, amount) ==
    {IF x = Panic THEN Panic ELSE RGB_to_rgb(x) : x \in HSL_spin(RGB_to_hsl(c), amount)}

RGB_greyscale(c) == HSL_to_rgb(HSL_greyscale(RGB_to_hsl(c)))

\* RGBA_saturate going through HSL, which has no alpha, as greyscale does.
Mutant_RGBA_saturate(c, amount) == HSL_to_rgba(HSL_saturate(RGBA_to_hsl(c), amount))

RGBA_saturate(c, amount) == HSLA_to_rgba(HSLA_saturate(RGBA_to_hsla(c), amount))

RGBA_desaturate(c, amount) == HSLA_to_rgba(HSLA_desaturate(RGBA_to_hsla(c), amount))

RGBA_lighten(c, amount) == HSLA_to_rgba(HSLA_lighten(RGBA_to_hsla(c), amount))

RGBA_darken(c, amount) == HSLA_to_rgba(HSLA_darken(RGBA_to_hsla(c), amount))

\* RGBA_fadein reading the amount as a percentage, as saturate does.
Mutant_RGBA_fadein(c, amount) ==
    MkRGBA(c.r, c.g, c.b, Ratio_add(c.a, Ratio_from_percentage(amount)))

RGBA_fadein(c, amount) == MkRGBA(c.r, c.g, c.b, Ratio_add(c.a, Ratio_from_u8(amount)))

RGBA_fadeout(c, amount) == MkRGBA(c.r, c.g, c.b, Ratio_sub(c.a, Ratio_from_u8(amount)))

\* RGBA_fade adding the amount to the alpha instead of replacing it.
Mutant_RGBA_fade(c, amount) ==
    MkRGBA(c.r, c.g, c.b, Ratio_add(c.a, Ratio_from_u8(amount)))

RGBA_fade(c, amount) == MkRGBA(c.r, c.g, c.b, Ratio_from_u8(amount))

RGBA_spin(c, amount) ==
    {IF x = Panic THEN Panic ELSE RGB_to_rgb(x) : x \in HSL_spin(RGBA_to_hsl(c), amount)}

RGBA_greyscale(c) == HSL_to_rgba(HSL_greyscale(RGBA_to_hsl(c)))

(***************************************************************************)
(* The Color trait: a call on a value runs the method of its own model.    *)
(***************************************************************************)
to_rgb(c) ==
    CASE c.model = "RGB"  -> RGB_to_rgb(c)
      [] c.model = "RGBA" -> RGBA_to_rgb(c)
      [] c.model = "HSL"  -> HSL_to_rgb(c)
      [] c.model = "HSLA" -> HSLA_to_rgb(c)

to_rgba(c) ==
    CASE c.model = "RGB"  -> RGB_to_rgba(c)
      [] c.model = "RGBA" -> RGBA_to_rgba(c)
      [] c.model = "HSL"  -> HSL_to_rgba(c)
      [] c.model = "HSLA" -> HSLA_to_rgba(c)

to_hsl(c) ==
    CASE c.model = "RGB"  -> RGB_to_hsl(c)
      [] c.model = "RGBA" -> RGBA_to_hsl(c)
      [] c.model = "HSL"  -> HSL_to_hsl(c)
      [] c.model = "HSLA" -> HSLA_to_hsl(c)

to_hsla(c) ==
    CASE c.model = "RGB"  -> RGB_to_hsla(c)
      [] c.model = "RGBA" -> RGBA_to_hsla(c)
      [] c.model = "HSL"  -> HSL_to_hsla(c)
      [] c.model = "HSLA" -> HSLA_to_hsla(c)

(***************************************************************************)
(* mix, tint and shade                                                     *)
(***************************************************************************)
\* mix_channel weighting both colours by weight_lhs.
Mutant_mix_channel(x, y, weight_lhs) ==
    Ratio_add(Ratio_mul(x, weight_lhs), Ratio_mul(y, weight_lhs))

\* One channel of the blend: x weighted by weight_lhs, y by its complement.
mix_channel(x, y, weight_lhs) ==
    Ratio_add(Ratio_mul(x, weight_lhs),
              Ratio_mul(y, Ratio_sub(Ratio_from_f32(F1), weight_lhs)))

\* mix_blend keeping the alpha of the left colour.
Mutant_mix_blend(lhs, rhs, rgb_weight_lhs, alpha_weight_lhs) ==
    MkRGBA(mix_channel(lhs.r, rhs.r, rgb_weight_lhs),
           mix_channel(lhs.g, rhs.g, rgb_weight_lhs),
           mix_channel(lhs.b, rhs.b, rgb_weight_lhs),
           lhs.a)

mix_blend(lhs, rhs, rgb_weight_lhs, alpha_weight_lhs) ==
    MkRGBA(mix_channel(lhs.r, rhs.r, rgb_weight_lhs),
           mix_channel(lhs.g, rhs.g, rgb_weight_lhs),
           mix_channel(lhs.b, rhs.b, rgb_weight_lhs),
           mix_channel(lhs.a, rhs.a, alpha_weight_lhs))

\* mix_rgb_weight falling back to the alpha distance instead of the weight.
Mutant_mix_rgb_weight(w, a) ==
    IF FMul(w, a) = FNeg(F1) THEN a
    ELSE FDiv(FAdd(w, a), FAdd(F1, FMul(w, a)))

\* The combined weight in [-1, 1] from the weight w and the alpha distance a.
mix_rgb_weight(w, a) ==
    IF FMul(w, a) = FNeg(F1) THEN w
    ELSE FDiv(FAdd(w, a), FAdd(F1, FMul(w, a)))

\* mix_weighted blending the alpha with the alpha-adjusted weight of r, g, b.
Mutant_mix_weighted(lhs, rhs, ratio_weight) ==
    mix_blend(lhs, rhs,
              Ratio_from_f32(FDiv(FAdd(mix_rgb_weight(
                                           FSub(FMul(Ratio_as_f32(ratio_weight), F2), F1),
                                           FSub(Ratio_as_f32(lhs.a), Ratio_as_f32(rhs.a))),
                                       F1),
                                  F2)),
              Ratio_from_f32(FDiv(FAdd(mix_rgb_weight(
                                           FSub(FMul(Ratio_as_f32(ratio_weight), F2), F1),
                                           FSub(Ratio_as_f32(lhs.a), Ratio_as_f32(rhs.a))),
                                       F1),
                                  F2)))

mix_weighted(lhs, rhs, ratio_weight) ==
    mix_blend(lhs, rhs,
              Ratio_from_f32(FDiv(FAdd(mix_rgb_weight(
                                           FSub(FMul(Ratio_as_f32(ratio_weight), F2), F1),
                                           FSub(Ratio_as_f32(lhs.a), Ratio_as_f32(rhs.a))),
                                       F1),
                                  F2)),
              ratio_weight)

\* RGBA_mix converting the other colour with to_rgb, which drops its alpha.
Mutant_RGBA_mix(c, other, weight) ==
    mix_weighted(c, RGB_to_rgba(to_rgb(other)), Ratio_from_percentage(weight))

RGBA_mix(c, other, weight) ==
    mix_weighted(c, to_rgba(other), Ratio_from_percentage(weight))

\* RGBA_tint ignoring its weight and mixing half and half.
Mutant_RGBA_tint(c, weight) == RGBA_mix(c, RGBA_new(255, 255, 255, 255), 50)

RGBA_tint(c, weight) == RGBA_mix(c, RGBA_new(255, 255, 255, 255), weight)

RGBA_shade(c, weight) == RGBA_mix(c, RGBA_new(0, 0, 0, 255), weight)

RGB_mix(c, other, weight) == RGBA_mix(RGB_to_rgba(c), other, weight)

RGB_tint(c, weight) == RGBA_tint(RGB_to_rgba(c), weight)

RGB_shade(c, weight) == RGBA_shade(RGB_to_rgba(c), weight)

HSLA_mix(c, other, weight) == RGBA_to_hsla(RGBA_mix(HSLA_to_rgba(c), other, weight))

HSLA_tint(c, weight) == RGBA_tint(HSLA_to_rgba(c), weight)

HSLA_shade(c, weight) == RGBA_shade(HSLA_to_rgba(c), weight)

HSL_mix(c, other, weight) == HSLA_mix(HSL_to_hsla(c), other, weight)

HSL_tint(c, weight) == RGBA_tint(HSL_to_rgba(c), weight)

HSL_shade(c, weight) == RGBA_shade(HSL_to_rgba(c), weight)

(***************************************************************************)
(* The Color trait: transformations                                        *)
(***************************************************************************)
saturate(c, amount) ==
    CASE c.model = "RGB"  -> RGB_saturate(c, amount)
      [] c.model = "RGBA" -> RGBA_saturate(c, amount)
      [] c.model = "HSL"  -> HSL_saturate(c, amount)
      [] c.model = "HSLA" -> HSLA_saturate(c, amount)

desaturate(c, amount) ==
    CASE c.model = "RGB"  -> RGB_desaturate(c, amount)
      [] c.model = "RGBA" -> RGBA_desaturate(c, amount)
      [] c.model = "HSL"  -> HSL_desaturate(c, amount)
      [] c.model = "HSLA" -> HSLA_desaturate(c, amount)

lighten(c, amount) ==
    CASE c.model = "RGB"  -> RGB_lighten(c, amount)
      [] c.model = "RGBA" -> RGBA_lighten(c, amount)
      [] c.model = "HSL"  -> HSL_lighten(c, amount)
      [] c.model = "HSLA" -> HSLA_lighten(c, amount)

darken(c, amount) ==
    CASE c.model = "RGB"  -> RGB_darken(c, amount)
      [] c.model = "RGBA" -> RGBA_darken(c, amount)
      [] c.model = "HSL"  -> HSL_darken(c, amount)
      [] c.model = "HSLA" -> HSLA_darken(c, amount)

fadein(c, amount) ==
    CASE c.model = "RGB"  -> RGB_fadein(c, amount)
      [] c.model = "RGBA" -> RGBA_fadein(c, amount)
      [] c.model = "HSL"  -> HSL_fadein(c, amount)
      [] c.model = "HSLA" -> HSLA_fadein(c, amount)

fadeout(c, amount) ==
    CASE c.model = "RGB"  -> RGB_fadeout(c, amount)
      [] c.model = "RGBA" -> RGBA_fadeout(c, amount)
      [] c.model = "HSL"  -> HSL_fadeout(c, amount)
      [] c.model = "HSLA" -> HSLA_fadeout(c, amount)

fade(c, amount) ==
    CASE c.model = "RGB"  -> RGB_fade(c, amount)
      [] c.model = "RGBA" -> RGBA_fade(c, amount)
      [] c.model = "HSL"  -> HSL_fade(c, amount)
      [] c.model = "HSLA" -> HSLA_fade(c, amount)

spin(c, amount) ==
    CASE c.model = "RGB"  -> RGB_spin(c, amount)
      [] c.model = "RGBA" -> RGBA_spin(c, amount)
      [] c.model = "HSL"  -> HSL_spin(c, amount)
      [] c.model = "HSLA" -> HSLA_spin(c, amount)

mix(c, other, weight) ==
    CASE c.model = "RGB"  -> RGB_mix(c, other, weight)
      [] c.model = "RGBA" -> RGBA_mix(c, other, weight)
      [] c.model = "HSL"  -> HSL_mix(c, other, weight)
      [] c.model = "HSLA" -> HSLA_mix(c, other, weight)

tint(c, weight) ==
    CASE c.model = "RGB"  -> RGB_tint(c, weight)
      [] c.model = "RGBA" -> RGBA_tint(c, weight)
      [] c.model = "HSL"  -> HSL_tint(c, weight)
      [] c.model = "HSLA" -> HSLA_tint(c, weight)

shade(c, weight) ==
    CASE c.model = "RGB"  -> RGB_shade(c, weight)
      [] c.model = "RGBA" -> RGBA_shade(c, weight)
      [] c.model = "HSL"  -> HSL_shade(c, weight)
      [] c.model = "HSLA" -> HSLA_shade(c, weight)

greyscale(c) ==
    CASE c.model = "RGB"  -> RGB_greyscale(c)
      [] c.model = "RGBA" -> RGBA_greyscale(c)
      [] c.model = "HSL"  -> HSL_greyscale(c)
      [] c.model = "HSLA" -> HSLA_greyscale(c)

(***************************************************************************)
(* The caller: it constructs a colour, then calls methods on the value it  *)
(* holds, each call returning the next value.                             *)
(***************************************************************************)
MaxOps == 2

ByteStride == 32

AlphaStride == 51

HueStride == 30

PctStride == 25

ByteSamples == {k \in 0..U8Max : k % ByteStride = 0} \cup {U8Max}

FewBytes == {0, 128, U8Max}

AlphaSamples == {k \in 0..U8Max : k % AlphaStride = 0} \cup {1, 128, U8Max - 1}

HueSamples == {h \in 0..FullTurn : h % HueStride = 0} \cup {9, 193, 339}

PctSamples == {p \in 0..100 : p % PctStride = 0} \cup {100}

NoColor == [model |-> "none"]

RGBInputs ==
    {RGB_new(r, g, b) : r \in ByteSamples, g \in ByteSamples, b \in ByteSamples}
        \cup {RGB_new(k, k, k) : k \in 0..U8Max}

RGBAInputs ==
    {RGBA_new(c[1], c[2], c[3], a) :
        c \in FewBytes \X FewBytes \X FewBytes, a \in AlphaSamples}

HSLInputs ==
    {HSL_new(h, s, l) : h \in HueSamples, s \in PctSamples, l \in PctSamples}

HSLAInputs ==
    {HSLA_new(c[1], c[2], c[3], a) :
        c \in {0, 193, 339} \X {0, 50, 100} \X {25, 50, 100}, a \in AlphaSamples}

FewRGB == {RGB_new(r, g, b) : r \in FewBytes, g \in FewBytes, b \in FewBytes}

FewHSL == {HSL_new(h, s, l) : h \in {0, 193, 339}, s \in {0, 50, 100}, l \in {25, 50, 100}}

\* Colours of the four models, the alpha models at alpha 0, 128 and 255.
FewColours ==
    FewRGB \cup FewHSL
        \cup {c \in RGBAInputs : c.a \in FewBytes}
        \cup {c \in HSLAInputs : c.a \in FewBytes}

\* Percentage amounts, and one byte above the percentages.
PctAmounts == {p \in PctSamples : p % 50 = 0} \cup {20, U8Max}

\* i16 spin angles on both sides of the assertion's limit.
SpinAmounts == {I16Min, -400, -360, -359, -100, -30, 0, 30, 100, 359, 360, 400, 32767}

\* The colours mix is called on and with: constructor-built ones, and one HSL
\* value as to_hsl() returns it, its numerators not those of whole percentages.
MixColours ==
    {RGBA_new(c[1], c[2], c[3], a) :
        c \in {<<100, 0, 0>>, <<0, 100, 0>>, <<255, 255, 255>>},
        a \in {0, 127, U8Max}}
        \cup {RGBA_new(0, 171, 0, 15), RGBA_new(171, 0, 171, 16)}
        \cup {RGBA_new(0, 0, 255, 128), RGB_new(243, 166, 13), HSL_new(10, 90, 50),
              HSLA_new(6, 93, 71, 128), RGB_to_hsl(RGB_new(89, 161, 54))}

Weights == PctSamples

Callable == status = "ok" /\ Len(trace) < MaxOps

Returns(op, result) ==
    /\ prev' = cur
    /\ cur' = result
    /\ trace' = Append(trace, op)
    /\ status' = IF result = Panic THEN "panic" ELSE "ok"
    /\ UNCHANGED <<orig, arg, peer>>

ToRgb == Callable /\ Returns("to_rgb", to_rgb(cur))

ToRgba == Callable /\ Returns("to_rgba", to_rgba(cur))

ToHsl == Callable /\ Returns("to_hsl", to_hsl(cur))

ToHsla == Callable /\ Returns("to_hsla", to_hsla(cur))

Saturate == Callable /\ Returns("saturate", saturate(cur, arg))

Desaturate == Callable /\ Returns("desaturate", desaturate(cur, arg))

Lighten == Callable /\ Returns("lighten", lighten(cur, arg))

Darken == Callable /\ Returns("darken", darken(cur, arg))

Greyscale == Callable /\ Returns("greyscale", greyscale(cur))

Fadein == Callable /\ Returns("fadein", fadein(cur, arg))

Fadeout == Callable /\ Returns("fadeout", fadeout(cur, arg))

Fade == Callable /\ Returns("fade", fade(cur, arg))

Spin == Callable /\ \E out \in spin(cur, arg) : Returns("spin", out)

Mix == Callable /\ Returns("mix", mix(cur, peer, arg))

Tint == Callable /\ Returns("tint", tint(cur, arg))

Shade == Callable /\ Returns("shade", shade(cur, arg))

Start(colours, args, peers) ==
    /\ orig \in colours
    /\ arg \in args
    /\ peer \in peers
    /\ prev = orig
    /\ cur = orig
    /\ trace = <<>>
    /\ status = "ok"

\* The percentages a caller gives to HSL::new and to saturate.
Percentages == 0..100

\* HSL colours of every saturation percentage.
PctHSL == {HSL_new(9, p, 50) : p \in Percentages}

\* The reference pairs of the conversion tests: <<r, g, b, h, s, l>>, the HSL
\* side as the degrees and percentages given to HSL::new.
ReferenceTable ==
    { <<0, 0, 0, 0, 0, 0>>,           <<230, 230, 230, 0, 0, 90>>,
      <<255, 255, 255, 0, 0, 100>>,   <<253, 216, 229, 339, 90, 92>>,
      <<172, 96, 83, 9, 35, 50>>,     <<23, 98, 119, 193, 68, 28>>,
      <<89, 161, 54, 100, 50, 42>>,   <<148, 189, 209, 200, 40, 70>>,
      <<136, 102, 153, 280, 20, 50>>, <<230, 25, 60, 350, 80, 50>>,
      <<255, 99, 71, 9, 100, 64>>,    <<255, 160, 122, 17, 100, 74>>,
      <<138, 43, 226, 271, 76, 53>>,  <<255, 140, 0, 33, 100, 50>>,
      <<255, 20, 147, 328, 100, 54>>, <<127, 255, 0, 90, 100, 50>> }

ReferenceColours ==
    {RGB_new(t[1], t[2], t[3]) : t \in ReferenceTable}
        \cup {HSL_new(t[4], t[5], t[6]) : t \in ReferenceTable}

\* Conversions between the four models.
Init ==
    Start(RGBInputs \cup RGBAInputs \cup HSLInputs \cup HSLAInputs \cup ReferenceColours
              \cup PctHSL,
          {0}, {NoColor})

Next == ToRgb \/ ToRgba \/ ToHsl \/ ToHsla

Spec == Init /\ [][Next]_vars

\* saturate, desaturate, lighten, darken and greyscale.
InitAdjust == Start(FewColours, PctAmounts, {NoColor})

NextAdjust == Saturate \/ Desaturate \/ Lighten \/ Darken \/ Greyscale

SpecAdjust == InitAdjust /\ [][NextAdjust]_vars

\* fadein, fadeout and fade.
InitFade == Start(FewRGB \cup FewHSL \cup RGBAInputs \cup HSLAInputs, AlphaSamples, {NoColor})

NextFade == Fadein \/ Fadeout \/ Fade

SpecFade == InitFade /\ [][NextFade]_vars

\* spin.
InitSpin == Start(FewColours, SpinAmounts, {NoColor})

NextSpin == Spin

SpecSpin == InitSpin /\ [][NextSpin]_vars

\* mix, tint and shade.
InitMix == Start(MixColours, Weights, MixColours)

NextMix == Mix \/ Tint \/ Shade

SpecMix == InitMix /\ [][NextMix]_vars

\* saturate and desaturate on HSL, over every pair of percentages.
InitSaturate == Start(PctHSL, Percentages, {NoColor})

NextSaturate == Saturate \/ Desaturate

SpecSaturate == InitSaturate /\ [][NextSaturate]_vars

\* Colours of the four models, two of them built by constructors given a hue
\* of a full turn or more and percentages above 100.
TotalColours ==
    {RGB_new(255, 99, 71), RGBA_new(0, 0, 255, 128), HSL_new(9, 35, 50),
     HSL_new(400, 200, 150), HSLA_new(193, 68, 28, 1), HSLA_new(360, 101, U8Max, 0)}

\* A percentage, the first byte above the percentages and the largest byte.
TotalAmounts == {50, 101, U8Max}

TotalPeers == {RGBA_new(0, 100, 0, 127), HSL_new(10, 90, 50)}

\* Every conversion and every transformation but spin.
InitTotal == Start(TotalColours, TotalAmounts, TotalPeers)

NextTotal ==
    \/ ToRgb \/ ToRgba \/ ToHsl \/ ToHsla
    \/ Saturate \/ Desaturate \/ Lighten \/ Darken \/ Greyscale
    \/ Fadein \/ Fadeout \/ Fade
    \/ Mix \/ Tint \/ Shade

SpecTotal == InitTotal /\ [][NextTotal]_vars

(***************************************************************************)
(* tests::conversions: ApproximatelyEq                                      *)
(***************************************************************************)
\* approximately_eq on a u8 (max = 255) or a u16 (max = 65535):
\* self == other || self + 1 == other || self - 1 == other, left to right.
\* self + 1 overflows at max and self - 1 at 0: a build with overflow checks
\* (checked) panics there, a build without them wraps around.  The outcome
\* is "true", "false" or "panic".
approximately_eq(self, other, max, checked) ==
    IF self = other THEN "true"
    ELSE IF checked /\ self = max THEN "panic"
    ELSE IF (self + 1) % (max + 1) = other THEN "true"
    ELSE IF checked /\ self = 0 THEN "panic"
    ELSE IF (self - 1) % (max + 1) = other THEN "true"
    ELSE "false"

\* ApproximatelyEq for RGB: r, g and b in turn, && stopping at the first
\* channel that is not approximately equal.
RGB_approximately_eq(x, y, checked) ==
    IF approximately_eq(Ratio_as_u8(x.r), Ratio_as_u8(y.r), U8Max, checked) # "true"
    THEN approximately_eq(Ratio_as_u8(x.r), Ratio_as_u8(y.r), U8Max, checked)
    ELSE IF approximately_eq(Ratio_as_u8(x.g), Ratio_as_u8(y.g), U8Max, checked) # "true"
    THEN approximately_eq(Ratio_as_u8(x.g), Ratio_as_u8(y.g), U8Max, checked)
    ELSE approximately_eq(Ratio_as_u8(x.b), Ratio_as_u8(y.b), U8Max, checked)

\* ApproximatelyEq for HSL: the hue in degrees, then saturation and lightness
\* as percentages.
HSL_approximately_eq(x, y, checked) ==
    IF approximately_eq(Angle_degrees(x.h), Angle_degrees(y.h), U16Max, checked) # "true"
    THEN approximately_eq(Angle_degrees(x.h), Angle_degrees(y.h), U16Max, checked)
    ELSE IF approximately_eq(Ratio_as_percentage(x.s), Ratio_as_percentage(y.s),
                             U8Max, checked) # "true"
    THEN approximately_eq(Ratio_as_percentage(x.s), Ratio_as_percentage(y.s),
                          U8Max, checked)
    ELSE approximately_eq(Ratio_as_percentage(x.l), Ratio_as_percentage(y.l),
                          U8Max, checked)

(***************************************************************************)
(* Properties                                                              *)
(***************************************************************************)
\* The last method called is op.
LastCall(op) == trace # <<>> /\ trace[Len(trace)] = op

\* r, g and b of x and y differ by at most d each.
ChannelsWithin(x, y, d) ==
    /\ Abs(x.r - y.r) <= d
    /\ Abs(x.g - y.g) <= d
    /\ Abs(x.b - y.b) <= d

Opaque == {"RGB", "HSL"}

WithAlpha == {"RGBA", "HSLA"}

RoundTripDone == trace = <<"to_hsl", "to_rgb">> /\ orig.model = "RGB"

\* C1 as stated: RGB(r,g,b).to_hsl().to_rgb() differs from RGB(r,g,b) by at
\* most 1 in each of r, g and b.
C1_RoundTripWithinOne == RoundTripDone => ChannelsWithin(cur, orig, 1)

\* C1 amended: RGB(r,g,b).to_hsl().to_rgb() differs from RGB(r,g,b) by at most
\* 3 in each of r, g and b; the hue is kept in whole degrees, and a
\* difference of 2 or 3 does occur.
C1_RoundTripWithinThree == RoundTripDone => ChannelsWithin(cur, orig, 3)

C1_Witness == RoundTripDone /\ ~ChannelsWithin(cur, orig, 2)

\* C2: spin(delta) ends in a panic, returning no colour, for every delta
\* with delta >= 360 or delta <= -360, on each of the four models.
C2_SpinRejectsFullTurns ==
    (trace = <<"spin">> /\ (arg >= 360 \/ arg <= -360)) => status = "panic"

\* C3: c.greyscale() returns the same value as c.desaturate(100) on each of
\* the four models, alpha included.
C3_GreyscaleIsDesaturate100 ==
    (trace = <<"greyscale">>) => cur = desaturate(orig, 100)

BothRGBA == orig.model = "RGBA" /\ peer.model = "RGBA"

\* C4: for RGBA colours x and y, x.mix(y, 100) equals x and x.mix(y, 0)
\* equals y in all four channels.
C4_MixFullWeight ==
    (trace = <<"mix">> /\ BothRGBA) =>
        /\ arg = 100 => cur = orig
        /\ arg = 0 => cur = peer

C4_Witness ==
    /\ trace = <<"mix">>
    /\ BothRGBA
    /\ arg = 100
    /\ orig.a = 0
    /\ peer.a = 255
    /\ peer.r # orig.r
    /\ cur = orig

\* C5: RGBA(r,g,b,a).to_rgb() equals RGB(r,g,b): the alpha is dropped and
\* r, g, b are kept exactly.
C5_RgbaToRgbKeepsChannels ==
    (LastCall("to_rgb") /\ prev.model = "RGBA") =>
        cur = MkRGB(prev.r, prev.g, prev.b)

C5_Witness ==
    /\ LastCall("to_rgb")
    /\ prev.model = "RGBA"
    /\ prev.a \notin {0, 255}
    /\ prev.r # prev.g
    /\ cur = MkRGB(prev.r, prev.g, prev.b)

\* C6: to_rgba() and to_hsla() called on an RGB or an HSL colour return a
\* colour whose alpha is 255.
C6_OpaqueToAlphaIs255 ==
    ((LastCall("to_rgba") \/ LastCall("to_hsla")) /\ prev.model \in Opaque) =>
        cur.model \in WithAlpha /\ cur.a = 255

C6_Witness ==
    /\ LastCall("to_hsla")
    /\ prev.model = "HSL"
    /\ prev.s > 0
    /\ cur.a = 255

\* C7: fadein(n) and fadeout(n) return an RGB or an HSL colour unchanged.
C7_FadeNoOpOnOpaque ==
    ((LastCall("fadein") \/ LastCall("fadeout")) /\ prev.model \in Opaque) =>
        cur = prev

C7_Witness ==
    /\ LastCall("fadein")
    /\ prev.model = "HSL"
    /\ arg > 0
    /\ prev.l < 255
    /\ cur = prev

\* C8: on RGBA and HSLA, fadein(n) sets alpha to min(255, a + n) and
\* fadeout(n) sets it to max(0, a - n), n a raw byte, and every other
\* channel is left unchanged.
C8_FadeSaturates ==
    /\ (LastCall("fadein") /\ prev.model \in WithAlpha) =>
           cur = [prev EXCEPT !.a = Min(255, prev.a + arg)]
    /\ (LastCall("fadeout") /\ prev.model \in WithAlpha) =>
           cur = [prev EXCEPT !.a = Max(0, prev.a - arg)]

C8_Witness ==
    /\ LastCall("fadein")
    /\ prev.model = "RGBA"
    /\ prev.a < 255
    /\ prev.a + arg > 255
    /\ cur.a = 255

\* C9: fade(n) sets alpha to exactly n and keeps every other channel:
\* RGB -> RGBA and HSL -> HSLA with the same fields, RGBA and HSLA with the
\* alpha replaced.
C9_FadeSetsAlpha ==
    LastCall("fade") =>
        CASE prev.model = "RGB"  -> cur = MkRGBA(prev.r, prev.g, prev.b, arg)
          [] prev.model = "RGBA" -> cur = MkRGBA(prev.r, prev.g, prev.b, arg)
          [] prev.model = "HSL"  -> cur = MkHSLA(prev.h, prev.s, prev.l, arg)
          [] prev.model = "HSLA" -> cur = MkHSLA(prev.h, prev.s, prev.l, arg)

C9_Witness ==
    /\ LastCall("fade")
    /\ prev.model = "RGBA"
    /\ prev.a > 0
    /\ arg > 0
    /\ prev.a + arg <= 255
    /\ cur.a = arg

GreyToHsl ==
    trace = <<"to_hsl">> /\ orig.model = "RGB" /\ orig.r = orig.g /\ orig.g = orig.b

\* C10 as stated: RGB(k,k,k).to_hsl() equals HSL::new(0, 0, p) with
\* p = round(k * 100 / 255).
C10_GreyIsPercentageHsl ==
    GreyToHsl => cur = HSL_new(0, 0, (2 * orig.r * 100 + 255) \div 510)

\* C10 amended: RGB(k,k,k).to_hsl() has hue 0, saturation 0 and the lightness
\* numerator k itself; with p = round(k * 100 / 255) it is within 1 of the
\* lightness numerator of HSL::new(0, 0, p), and equal to HSL::new(0, 0, p)
\* exactly when round(p * 255 / 100) = k.
C10_GreyKeepsNumerator ==
    GreyToHsl =>
        /\ cur = MkHSL(0, 0, orig.r)
        /\ Abs(cur.l - HSL_new(0, 0, (2 * orig.r * 100 + 255) \div 510).l) <= 1
        /\ (cur = HSL_new(0, 0, (2 * orig.r * 100 + 255) \div 510))
               <=> ((2 * ((2 * orig.r * 100 + 255) \div 510) * 255 + 100) \div 200 = orig.r)

C10_Witness ==
    /\ GreyToHsl
    /\ cur.l = orig.r
    /\ cur # HSL_new(0, 0, (2 * orig.r * 100 + 255) \div 510)

SaturateThenDesaturate ==
    /\ trace = <<"saturate", "desaturate">>
    /\ orig.model = "HSL"
    /\ orig.s + Ratio_from_percentage(arg) <= 255

\* C11: for an HSL colour c and an amount x whose fraction added to the
\* saturation numerator stays at or below 255, c.saturate(x).desaturate(x)
\* equals c, and hue and lightness are the same after each of the two calls.
C11_SaturateDesaturateRoundTrip ==
    SaturateThenDesaturate =>
        /\ cur = orig
        /\ prev.h = orig.h
        /\ prev.l = orig.l

C11_Witness ==
    /\ SaturateThenDesaturate
    /\ orig.s > 0
    /\ arg > 0
    /\ prev.s = orig.s + Ratio_from_percentage(arg)
    /\ prev.s < 255
    /\ cur = orig

SaturateOnce == trace = <<"saturate">> /\ orig.model = "HSL"

\* C12 as stated: for percentages s and x with s + x <= 100,
\* HSL::new(h, s, l).saturate(x) equals HSL::new(h, s + x, l) exactly.
C12_SaturateAddsPercentages ==
    SaturateOnce =>
        \A p \in Percentages :
            (orig.s = Ratio_from_percentage(p) /\ p + arg <= 100) =>
                cur = MkHSL(orig.h, Ratio_from_percentage(p + arg), orig.l)

\* C12 amended: for percentages s and x with s + x <= 100,
\* HSL::new(h, s, l).saturate(x) has the hue and lightness of
\* HSL::new(h, s + x, l) and the saturation numerator
\* min(255, round(s * 255 / 100) + round(x * 255 / 100)), which is within 1 of
\* the numerator round((s + x) * 255 / 100) of HSL::new(h, s + x, l).
C12_SaturateAddsNumerators ==
    SaturateOnce =>
        \A p \in Percentages :
            (orig.s = Ratio_from_percentage(p) /\ p + arg <= 100) =>
                /\ cur = MkHSL(orig.h,
                               Min(255, (2 * p * 255 + 100) \div 200
                                            + (2 * arg * 255 + 100) \div 200),
                               orig.l)
                /\ Abs(cur.s - (2 * (p + arg) * 255 + 100) \div 200) <= 1

C12_Witness ==
    /\ SaturateOnce
    /\ \E p \in Percentages :
           /\ orig.s = Ratio_from_percentage(p)
           /\ p + arg <= 100
           /\ p > 0
           /\ arg > 0
           /\ cur.s # Ratio_from_percentage(p + arg)

\* C13: for a colour c of any model and a weight w, c.tint(w) equals
\* c.to_rgba().mix(RGBA(255,255,255,255), w) and c.shade(w) equals
\* c.to_rgba().mix(RGBA(0,0,0,255), w); RGBA(0,0,255,128).tint(50) is
\* RGBA(191,191,255,191).
C13_TintShadeAreMixes ==
    /\ LastCall("tint") =>
           /\ cur = mix(to_rgba(prev), MkRGBA(255, 255, 255, 255), arg)
           /\ (prev = MkRGBA(0, 0, 255, 128) /\ arg = 50) =>
                  cur = MkRGBA(191, 191, 255, 191)
    /\ LastCall("shade") =>
           cur = mix(to_rgba(prev), MkRGBA(0, 0, 0, 255), arg)

C13_Witness ==
    /\ trace = <<"tint">>
    /\ orig = MkRGBA(0, 0, 255, 128)
    /\ arg = 50
    /\ cur = MkRGBA(191, 191, 255, 191)

SpinWithinTurn == LastCall("spin") /\ arg > -360 /\ arg < 360

\* C14: for -360 < delta < 360, spin(delta) on an HSL colour (h, s, l)
\* returns to_rgb() of the HSL colour with hue (h + delta) mod 360, written
\* (h + 360 - |delta|) mod 360 for a negative delta, and the same saturation
\* and lightness; on RGB, RGBA and HSLA it returns spin of to_hsl(), and the
\* result is always an RGB value.
C14_SpinRotatesHue ==
    SpinWithinTurn =>
        /\ status = "ok"
        /\ cur.model = "RGB"
        /\ cur = to_rgb(MkHSL((to_hsl(prev).h + 360 + arg) % 360,
                              to_hsl(prev).s, to_hsl(prev).l))

C14_Witness ==
    /\ trace = <<"spin">>
    /\ orig.model = "HSL"
    /\ orig.h = 0
    /\ orig.s > 0
    /\ arg = -30
    /\ cur = to_rgb(MkHSL(330, orig.s, orig.l))
    /\ cur # to_rgb(MkHSL(30, orig.s, orig.l))

\* The hues of x and y differ by at most 1 degree, not counting the turn from
\* 359 to 0, and their saturations and lightnesses by at most 1 percentage
\* point.
HslWithinOne(x, y) ==
    /\ Abs(x.h - y.h) <= 1
    /\ Abs(Ratio_as_percentage(x.s) - Ratio_as_percentage(y.s)) <= 1
    /\ Abs(Ratio_as_percentage(x.l) - Ratio_as_percentage(y.l)) <= 1

\* C15: for each of the 16 reference pairs (rgb, hsl), RGB.to_hsl() is within
\* 1 degree of hue and 1 percentage point of saturation and lightness of the
\* listed HSL, and HSL.to_rgb() is within 1 per channel of the listed RGB,
\* so that approximately_eq, as the tests call it on the result and the listed
\* value, is true with and without overflow checks; RGB(255,99,71).to_hsl()
\* equals HSL(9,100,64) exactly.
C15_ReferenceTable ==
    \A t \in ReferenceTable :
        /\ (trace = <<"to_hsl">> /\ orig = RGB_new(t[1], t[2], t[3])) =>
               /\ HslWithinOne(cur, HSL_new(t[4], t[5], t[6]))
               /\ \A checked \in BOOLEAN :
                      HSL_approximately_eq(cur, HSL_new(t[4], t[5], t[6]), checked) = "true"
        /\ (trace = <<"to_rgb">> /\ orig = HSL_new(t[4], t[5], t[6])) =>
               /\ ChannelsWithin(cur, RGB_new(t[1], t[2], t[3]), 1)
               /\ \A checked \in BOOLEAN :
                      RGB_approximately_eq(cur, RGB_new(t[1], t[2], t[3]), checked) = "true"
        /\ (trace = <<"to_hsl">> /\ orig = RGB_new(255, 99, 71)) =>
               cur = HSL_new(9, 100, 64)

C15_Witness ==
    /\ trace = <<"to_hsl">>
    /\ orig = RGB_new(255, 99, 71)
    /\ cur = HSL_new(9, 100, 64)

\* C16: for h in 0..360, percentages s and l and any alpha a,
\* HSL::new(h,s,l).to_hsla() equals HSLA::new(h,s,l,255) and
\* HSLA::new(h,s,l,a).to_hsl() equals HSL::new(h,s,l), exactly.
C16_HslHslaExact ==
    /\ (trace = <<"to_hsla">> /\ orig.model = "HSL") =>
           \A s \in Percentages : orig.s = Ratio_from_percentage(s) =>
               \A l \in Percentages : orig.l = Ratio_from_percentage(l) =>
                   cur = HSLA_new(orig.h, s, l, 255)
    /\ (trace = <<"to_hsl">> /\ orig.model = "HSLA") =>
           \A s \in Percentages : orig.s = Ratio_from_percentage(s) =>
               \A l \in Percentages : orig.l = Ratio_from_percentage(l) =>
                   cur = HSL_new(orig.h, s, l)

C16_Witness ==
    /\ trace = <<"to_hsla">>
    /\ orig = HSL_new(9, 35, 50)
    /\ cur = HSLA_new(9, 35, 50, 255)

Adjusted ==
    LastCall("saturate") \/ LastCall("desaturate") \/ LastCall("lighten") \/ LastCall("darken")

\* C17: saturate, desaturate, lighten and darken on an RGBA or an HSLA colour
\* return a colour of the same model whose alpha is the alpha of the receiver.
C17_AdjustKeepsAlpha ==
    (Adjusted /\ prev.model \in WithAlpha) =>
        cur.model = prev.model /\ cur.a = prev.a

C17_Witness ==
    /\ LastCall("saturate")
    /\ prev.model = "RGBA"
    /\ prev.a = 128
    /\ arg > 0
    /\ cur # prev
    /\ cur.a = 128

MixedHalf == trace = <<"mix">> /\ BothRGBA /\ arg = 50

\* C18 as stated: for RGBA colours x and y, x.mix(y, 50) and y.mix(x, 50)
\* agree within 1 on each of r, g, b and have exactly equal alpha.
C18_MixHalfSymmetric ==
    MixedHalf =>
        /\ ChannelsWithin(cur, mix(peer, orig, 50), 1)
        /\ cur.a = mix(peer, orig, 50).a

\* C18 amended: for RGBA colours x and y, x.mix(y, 50) and y.mix(x, 50)
\* agree within 2 on each of r, g, b and within 1 on alpha; the weight 50 is
\* the fraction 128/255 and its complement 127/255, so the two sides are not
\* weighted alike.
C18_MixHalfNearlySymmetric ==
    MixedHalf =>
        /\ ChannelsWithin(cur, mix(peer, orig, 50), 2)
        /\ Abs(cur.a - mix(peer, orig, 50).a) <= 1

C18_Witness ==
    /\ MixedHalf
    /\ ~ChannelsWithin(cur, mix(peer, orig, 50), 1)
    /\ cur.a # mix(peer, orig, 50).a

MixedOnce == trace = <<"mix">>

\* C19 as stated: for an RGB colour c, a colour o of any model and a weight w,
\* c.mix(o, w) equals c.to_rgba().mix(o.to_rgba(), w), c.to_rgba() having
\* alpha 255; for an HSL or HSLA colour c the result is that same blend
\* converted by to_hsla().
C19_MixBlendsInRgba ==
    MixedOnce =>
        /\ orig.model = "RGB" =>
               /\ to_rgba(orig).a = 255
               /\ cur = mix(to_rgba(orig), to_rgba(peer), arg)
        /\ orig.model \in {"HSL", "HSLA"} =>
               cur = to_hsla(mix(to_rgba(orig), to_rgba(peer), arg))

\* A colour of one of the four models, every fraction a numerator in
\* [0, 255] and the hue in [0, 360).
IsColour(c) ==
    \/ c.model \in {"RGB", "RGBA"}
          /\ c.r \in 0..255 /\ c.g \in 0..255 /\ c.b \in 0..255
          /\ (c.model = "RGBA" => c.a \in 0..255)
    \/ c.model \in {"HSL", "HSLA"}
          /\ c.h \in 0..359 /\ c.s \in 0..255 /\ c.l \in 0..255
          /\ (c.model = "HSLA" => c.a \in 0..255)

\* C20: apart from spin, no conversion or transformation fails: for every
\* colour and every byte amount or weight, percentages above 100 included,
\* also when given to the HSL and HSLA constructors, the call returns a
\* colour, every fraction channel of which has a numerator in [0, 255].
C20_Total == status = "ok" /\ IsColour(cur)

C20_Witness ==
    /\ LastCall("lighten")
    /\ arg > 100
    /\ prev.model = "HSL"
    /\ prev.l < 255
    /\ prev.l + Ratio_from_percentage(arg) > 255
    /\ cur.l = 255
    /\ status = "ok"

\* C21: grey colours convert exactly in both directions: RGB(k,k,k).to_hsl()
\* has hue 0, saturation 0 and lightness numerator k; an HSL colour with
\* saturation 0 converts by to_rgb() to r = g = b = its lightness numerator;
\* so RGB(k,k,k).to_hsl().to_rgb() equals RGB(k,k,k).
C21_GreysExact ==
    /\ (LastCall("to_hsl") /\ prev.model = "RGB" /\ prev.r = prev.g /\ prev.g = prev.b) =>
           cur.h = 0 /\ cur.s = 0 /\ cur.l = prev.r
    /\ (LastCall("to_rgb") /\ prev.model = "HSL" /\ prev.s = 0) =>
           cur.r = prev.l /\ cur.g = prev.l /\ cur.b = prev.l
    /\ (RoundTripDone /\ orig.r = orig.g /\ orig.g = orig.b) => cur = orig

C21_Witness ==
    /\ RoundTripDone
    /\ orig = MkRGB(1, 1, 1)
    /\ prev = MkHSL(0, 0, 1)
    /\ cur = orig

\* C22: RGB.to_hsla() and RGBA.to_hsla() are the to_hsl() result with the
\* alpha attached: for every RGB and every RGBA colour c,
\* c.to_hsla().to_hsl() equals c.to_hsl(), numerators included.
C22_ToHslaAttachesAlpha ==
    (trace = <<"to_hsla", "to_hsl">> /\ orig.model \in {"RGB", "RGBA"}) =>
        cur = to_hsl(orig)

\* The weight of mix scaled to [-1, 1].
mix_w(weight) == FSub(FMul(Ratio_as_f32(Ratio_from_percentage(weight)), F2), F1)

\* The distance of the two alphas, in [-1, 1].
mix_a(lhs, rhs) == FSub(Ratio_as_f32(lhs.a), Ratio_as_f32(rhs.a))

\* The blend weight of the left colour before it is made a Ratio.
mix_rgb_weight_scaled(w, a) == FDiv(FAdd(mix_rgb_weight(w, a), F1), F2)

\* C23: in RGBA.mix the denominator 1 + w*a is zero only when w*a = -1, which
\* happens exactly for weight 100 with self alpha 0 and other alpha 255 and
\* for weight 0 with self alpha 255 and other alpha 0; in those cases the raw
\* weight w is used, and the blend weight always lies in [0, 1].
C23_MixDivisionGuarded ==
    (MixedOnce /\ BothRGBA) =>
        /\ (FAdd(F1, FMul(mix_w(arg), mix_a(orig, peer))) = FZero)
               <=> (FMul(mix_w(arg), mix_a(orig, peer)) = FNeg(F1))
        /\ (FMul(mix_w(arg), mix_a(orig, peer)) = FNeg(F1))
               <=> \/ arg = 100 /\ orig.a = 0 /\ peer.a = 255
                   \/ arg = 0 /\ orig.a = 255 /\ peer.a = 0
        /\ (FMul(mix_w(arg), mix_a(orig, peer)) = FNeg(F1)) =>
               mix_rgb_weight(mix_w(arg), mix_a(orig, peer)) = mix_w(arg)
        /\ FLe(FZero, mix_rgb_weight_scaled(mix_w(arg), mix_a(orig, peer)))
        /\ FLe(mix_rgb_weight_scaled(mix_w(arg), mix_a(orig, peer)), F1)
        /\ cur = mix_blend(orig, peer,
                           Ratio_from_f32(mix_rgb_weight_scaled(mix_w(arg), mix_a(orig, peer))),
                           Ratio_from_percentage(arg))

C23_Witness ==
    /\ MixedOnce
    /\ BothRGBA
    /\ arg = 100
    /\ orig.a = 0
    /\ peer.a = 255
    /\ FAdd(F1, FMul(mix_w(arg), mix_a(orig, peer))) = FZero
    /\ cur = orig

\* The byte nearest to a * b / 255: the product of two fractions over 255.
ByteProduct(a, b) == (2 * a * b + 255) \div 510

\* C24: the alpha of x.mix(y, w) depends only on the two alphas and on w, not
\* on r, g, b nor on the alpha-adjusted blend weight: with
\* W = round(w * 255 / 100) it is the saturating sum of alpha_x * W and
\* alpha_y * (255 - W), each re-quantized to a byte; alphas 255 and 127 at
\* weight 50 give 191 in either order.
C24_MixAlpha ==
    (MixedOnce /\ BothRGBA) =>
        /\ cur.a = Min(255, ByteProduct(orig.a, (2 * arg * 255 + 100) \div 200)
                            + ByteProduct(peer.a, 255 - (2 * arg * 255 + 100) \div 200))
        /\ cur.a = mix(MkRGBA(0, 0, 0, orig.a), MkRGBA(255, 255, 255, peer.a), arg).a
        /\ (arg = 50 /\ {orig.a, peer.a} = {127, 255}) => cur.a = 191

C24_Witness ==
    /\ MixedOnce
    /\ BothRGBA
    /\ arg = 50
    /\ orig.a = 127
    /\ peer.a = 255
    /\ orig.r # peer.r
    /\ cur.a = 191

\* The hue of RGB::to_hsl in degrees, as a float, before it is rounded and
\* given to Angle::new.
RGB_hue_degrees(r, g, b) ==
    RGB_hue_positive(FMul(RGB_hue_sector(r, g, b, RGB_max(r, g, b), RGB_min(r, g, b)),
                          F60))

Degrees == 0..359

ToHslOfColour ==
    LastCall("to_hsl") /\ prev.model = "RGB" /\ ~(prev.r = prev.g /\ prev.g = prev.b)

\* C25: the hue of every HSL or HSLA value is in [0, 360): as built by a
\* constructor, as returned by RGB.to_hsl(), whose computed hue lies in
\* (0, 360] before normalisation, exactly 360 included, and as moved by the
\* hue arithmetic of spin and of HSL.to_rgb (hue + 120, hue - 120).
C25_HueInRange ==
    /\ cur.model \in {"HSL", "HSLA"} =>
           /\ cur.h \in Degrees
           /\ Angle_add(cur.h, Angle_new(120)) \in Degrees
           /\ Angle_sub(cur.h, Angle_new(120)) \in Degrees
           /\ \A d \in {1, 30, 100, 359} :
                  /\ Angle_add(cur.h, Angle_new(d)) \in Degrees
                  /\ Angle_sub(cur.h, Angle_new(d)) \in Degrees
    /\ ToHslOfColour =>
           /\ FGt(RGB_hue_degrees(Ratio_as_f32(prev.r), Ratio_as_f32(prev.g),
                                  Ratio_as_f32(prev.b)), FZero)
           /\ FLe(RGB_hue_degrees(Ratio_as_f32(prev.r), Ratio_as_f32(prev.g),
                                  Ratio_as_f32(prev.b)), F360)
           /\ cur.h = RoundSat(RGB_hue_degrees(Ratio_as_f32(prev.r), Ratio_as_f32(prev.g),
                                               Ratio_as_f32(prev.b)), U16Max) % FullTurn

C25_Witness ==
    /\ ToHslOfColour
    /\ prev = MkRGB(255, 0, 0)
    /\ RGB_hue_degrees(Ratio_as_f32(255), Ratio_as_f32(0), Ratio_as_f32(0)) = F360
    /\ cur.h = 0

\* The largest and the smallest of three numerators.
Largest(c) == Max(c.r, Max(c.g, c.b))
Smallest(c) == Min(c.r, Min(c.g, c.b))

\* C26: in RGB.to_hsl the pairwise selection returns the true maximum and the
\* true minimum of (r, g, b), every tie pattern included, so that lightness is
\* (max + min) / 2 and max - min is not zero once the grey shortcut is passed.
C26_ExtremesSelected ==
    ToHslOfColour =>
        /\ RGB_max(Ratio_as_f32(prev.r), Ratio_as_f32(prev.g), Ratio_as_f32(prev.b))
               = Ratio_as_f32(Largest(prev))
        /\ RGB_min(Ratio_as_f32(prev.r), Ratio_as_f32(prev.g), Ratio_as_f32(prev.b))
               = Ratio_as_f32(Smallest(prev))
        /\ FSub(RGB_max(Ratio_as_f32(prev.r), Ratio_as_f32(prev.g), Ratio_as_f32(prev.b)),
                RGB_min(Ratio_as_f32(prev.r), Ratio_as_f32(prev.g), Ratio_as_f32(prev.b)))
               # FZero
        /\ cur.l = Ratio_from_f32(FDiv(FAdd(Ratio_as_f32(Largest(prev)),
                                            Ratio_as_f32(Smallest(prev))), F2))

C26_Witness ==
    /\ ToHslOfColour
    /\ prev = MkRGB(224, 32, 224)
    /\ RGB_max(Ratio_as_f32(224), Ratio_as_f32(32), Ratio_as_f32(224)) = Ratio_as_f32(224)
    /\ cur.l = 128

MixedWithItself == MixedOnce /\ BothRGBA /\ peer = orig

\* C27: mixing an RGBA colour with itself returns it in all four channels,
\* whatever the weight in 0..100: the two rounded products of each channel
\* always sum back to the channel.
C27_MixWithItself ==
    MixedWithItself =>
        /\ cur = orig
        /\ \A w \in Percentages : RGBA_mix(orig, orig, w) = orig
        /\ \A x \in 0..U8Max :
               /\ mix_channel(x, x, Ratio_from_percentage(arg)) = x
               /\ mix_channel(x, x, Ratio_from_f32(mix_rgb_weight_scaled(
                                        mix_w(arg), mix_a(orig, peer)))) = x

C27_Witness ==
    /\ MixedWithItself
    /\ orig = MkRGBA(171, 0, 171, 16)
    /\ arg = 25
    /\ cur = orig

AdjustedByZero == Adjusted /\ arg = 0

\* C28 as stated: a zero amount changes nothing; saturate(0), desaturate(0),
\* lighten(0) and darken(0) return the receiver unchanged on RGB and RGBA
\* colours as they do on HSL and HSLA colours.
C28_ZeroAmountChangesNothing == AdjustedByZero => cur = prev

\* C28, amended: with a zero amount saturate, desaturate, lighten and darken
\* return an HSL or HSLA receiver unchanged; an RGB receiver c comes back as
\* c.to_hsl().to_rgb() and an RGBA receiver as c.to_hsla().to_rgba(), alpha
\* kept, which need not be c.
C28_ZeroAmountIsRoundTrip ==
    AdjustedByZero =>
        /\ prev.model \in {"HSL", "HSLA"} => cur = prev
        /\ prev.model = "RGB" => cur = HSL_to_rgb(RGB_to_hsl(prev))
        /\ prev.model = "RGBA" =>
               /\ cur = HSLA_to_rgba(RGBA_to_hsla(prev))
               /\ cur.a = prev.a

C28_Witness ==
    /\ AdjustedByZero
    /\ LastCall("desaturate")
    /\ prev = MkRGB(255, 0, 0)
    /\ cur = MkRGB(255, 1, 1)
====
